---- MODULE Spec2Model ----
(***************************************************************************)
(* Indexed rANS entropy coder of src/src/compression/entropy_coding.py:    *)
(* the generic symbol codec (base_codec), the indexed CDF accessors, the   *)
(* scalar orchestrator (ans_index_encoder / ans_index_decoder) and the     *)
(* vectorized orchestrator (vec_ans_index_encoder / vec_ans_index_decoder).*)
(*                                                                         *)
(* The stack coder (src.compression.ans, imported as vrans) and the patch  *)
(* utility (src.compression.compression_utils) are not part of the source  *)
(* tree at hand; they are modelled from the written specification, with a  *)
(* narrow register (RansLBits, WordBits) so that renormalisation happens   *)
(* within a few pushes.  Tensors are kept flat, in row-major order, next   *)
(* to their shape <<B, C, H, W>>; positions are numbered from 0 as in the  *)
(* source, sequences are indexed from 1.                                   *)
(***************************************************************************)
EXTENDS Integers, Sequences, FiniteSets, TLC

VARIABLES
    args,        \* arguments of the encode calls: symbols, indices, cdf, ...
    dec_args,    \* arguments of the ans_index_decoder call
    vec_dec_args,\* arguments of the vec_ans_index_decoder call
    pc,          \* position of the driver in the sequence of calls
    i,           \* loop variable of the running orchestrator loop
    message,     \* the coder state threaded through pushes and pops
    pushed,      \* scalar encoder: one record per symbol_push performed
    popped,      \* scalar decoder: one record per symbol_pop performed
    s_enc,       \* result of ans_index_encoder: status, encoded, coding_shape
    s_dec,       \* result of ans_index_decoder: status, decoded
    v_work,      \* vectorized encoder locals: values, overflow, lanes
    v_enc,       \* result of vec_ans_index_encoder
    v_dec,       \* result of vec_ans_index_decoder, with its pop records
    warned       \* codecs whose construction raised the accuracy warning

vars == <<args, dec_args, vec_dec_args, pc, i, message, pushed, popped, s_enc, s_dec,
          v_work, v_enc, v_dec, warned>>

----------------------------------------------------------------------------
(* Arithmetic helpers *)

RECURSIVE Pow2(_)
Pow2(n) == IF n <= 0 THEN 1 ELSE 2 * Pow2(n - 1)

Min(a, b) == IF a <= b THEN a ELSE b

Prod(s) == s[1] * s[2] * s[3] * s[4]

\* numpy basic slicing a[:n] (n >= 0): the bound is clipped to the length
Slice(a, n) == SubSeq(a, 1, Min(n, Len(a)))

\* a[mask] for a boolean mask: the selected entries, in index order
Masked(a, mask) ==
    LET sel == SelectSeq([k \in 1..Len(a) |-> k], LAMBDA k : mask[k])
    IN  [j \in 1..Len(sel) |-> a[sel[j]]]

\* number of TRUE entries of mask among its first k
Rank(mask, k) == Cardinality({j \in 1..k : mask[j]})

----------------------------------------------------------------------------
(* Module constants *)

OVERFLOW_WIDTH == 4
OVERFLOW_CODE == Pow2(Pow2(OVERFLOW_WIDTH))
PATCH_SIZE == <<4, 4>>

----------------------------------------------------------------------------
(* Stack coder (vrans): a vector of registers over one stack of words *)

RansLBits == 4
WordBits == 4
rans_l == Pow2(RansLBits)

empty_message(size) == [head |-> [k \in 1..size |-> rans_l], tail |-> <<>>]

\* a malformed interval is a precondition violation of push
IntervalOK(starts, freqs, precision) ==
    \A k \in 1..Len(freqs) :
        /\ freqs[k] > 0
        /\ starts[k] >= 0
        /\ starts[k] + freqs[k] <= Pow2(precision)

vrans_push(msg, starts, freqs, precision) ==
    LET head == msg.head
        K == Len(head)
        idxs == [k \in 1..K |->
                   head[k] >= ((rans_l \div Pow2(precision)) * Pow2(WordBits)) * freqs[k]]
        words == Masked([k \in 1..K |-> head[k] % Pow2(WordBits)], idxs)
        head1 == [k \in 1..K |->
                   IF idxs[k] THEN head[k] \div Pow2(WordBits) ELSE head[k]]
    IN  [head |-> [k \in 1..K |->
                     (head1[k] \div freqs[k]) * Pow2(precision)
                       + (head1[k] % freqs[k]) + starts[k]],
         tail |-> words \o msg.tail]

\* first phase of pop: the cumulative frequencies, state untouched
vrans_peek(msg, precision) ==
    [k \in 1..Len(msg.head) |-> msg.head[k] % Pow2(precision)]

\* second phase of pop; ok is FALSE when the stack holds too few words
vrans_pop_fun(msg, cfs, starts, freqs, precision) ==
    LET K == Len(msg.head)
        head0 == [k \in 1..K |->
                    freqs[k] * (msg.head[k] \div Pow2(precision)) + cfs[k] - starts[k]]
        idxs == [k \in 1..K |-> head0[k] < rans_l]
        n == Rank(idxs, K)
    IN  IF n > Len(msg.tail)
        THEN [ok |-> FALSE, message |-> msg]
        ELSE [ok |-> TRUE,
              message |->
                [head |-> [k \in 1..K |->
                             IF idxs[k]
                             THEN head0[k] * Pow2(WordBits) + msg.tail[Rank(idxs, k)]
                             ELSE head0[k]],
                 tail |-> SubSeq(msg.tail, n + 1, Len(msg.tail))]]

flatten(msg) ==
    [k \in 1..Len(msg.head) |-> msg.head[k] \div Pow2(WordBits)]
      \o [k \in 1..Len(msg.head) |-> msg.head[k] % Pow2(WordBits)]
      \o msg.tail

unflatten(arr, size) ==
    [head |-> [k \in 1..size |-> arr[k] * Pow2(WordBits) + arr[size + k]],
     tail |-> SubSeq(arr, 2 * size + 1, Len(arr))]

unflatten_scalar(arr) == unflatten(arr, 1)

----------------------------------------------------------------------------
(* Generic symbol codec and indexed CDF accessors *)

\* base_codec: the accuracy warning raised when a codec is constructed
base_codec_warns_late(precision) == precision >= 28
base_codec_warns(precision) == precision >= 24

\* base_codec.pop: the assertion on the re-derived interval
pop_consistent_strict(start, freq, cf) == start < cf /\ cf < start + freq
pop_consistent(start, freq, cf) == start <= cf /\ cf < start + freq

\* a[k] for a Python index k, negative indices counting from the end
PyIndex(a, k) == IF k < 0 THEN a[Len(a) + k + 1] ELSE a[k + 1]

\* whether cdf_i[value] and cdf_i[value + 1] exist (no IndexError)
enc_index_ok(cdf_i, value) == value >= -Len(cdf_i) /\ value + 1 < Len(cdf_i)

\* _indexed_cdf_to_enc_statfun: symbol |-> (start, freq), on the unsliced row
enc_statfun(cdf_i, value) ==
    [start |-> PyIndex(cdf_i, value),
     freq |-> PyIndex(cdf_i, value + 1) - PyIndex(cdf_i, value)]

\* np.searchsorted(a, v, side='right'): binary search for the insertion point
RECURSIVE bisect_right(_, _, _, _)
bisect_right(a, v, lo, hi) ==
    IF lo >= hi THEN lo
    ELSE LET mid == lo + ((hi - lo) \div 2)
         IN  IF a[mid + 1] <= v
             THEN bisect_right(a, v, mid + 1, hi)
             ELSE bisect_right(a, v, lo, mid)

searchsorted_right(a, v) == bisect_right(a, v, 0, Len(a))

\* the row as the decoding lookup sees it
dec_row_unsliced(cdf_i, cdf_i_length) == cdf_i
dec_row(cdf_i, cdf_i_length) == Slice(cdf_i, cdf_i_length)

\* _indexed_cdf_to_dec_statfun: the assertion on the last valid entry
term_ok_unchecked(cdf_i, cdf_i_length) == Len(dec_row(cdf_i, cdf_i_length)) > 0
term_ok(cdf_i, cdf_i_length) ==
    LET c == dec_row(cdf_i, cdf_i_length)
    IN  /\ Len(c) > 0
        /\ \/ c[Len(c)] = OVERFLOW_CODE
           \/ c[Len(c)] = Pow2(OVERFLOW_WIDTH)

\* _dec_statfun: cum_freq |-> symbol
dec_statfun(cdf_i, cdf_i_length, cum_freq) ==
    searchsorted_right(dec_row(cdf_i, cdf_i_length), cum_freq) - 1

----------------------------------------------------------------------------
(* Scalar orchestrator *)

Aborted(status) == status \notin {"idle", "running", "ok"}

\* the statuses of an iteration that got as far as constructing its codec
CodecBuilt(status) ==
    status \in {"ok", "abort_interval", "abort_lookup", "abort_assert",
                "abort_underflow"}

\* whether cdf[cdf_index] exists (no IndexError)
row_exists(a, cdf_index) == cdf_index >= -Len(a.cdf) /\ cdf_index < Len(a.cdf)

\* cdf_index >= 0 and cdf_index < cdf.shape[0]
index_ok_unsigned(a, cdf_index) == cdf_index < Len(a.cdf)
index_ok(a, cdf_index) == cdf_index >= 0 /\ cdf_index < Len(a.cdf)

\* max_value >= 0 and max_value < cdf.shape[1] - 1
max_value_ok(a, max_value) == max_value >= 0 /\ max_value < Len(a.cdf[1]) - 1

\* ans_index_encoder: the shifted value mapped to its bin and overflow code
scalar_clamp_nonpositive(value, max_value) ==
    IF value <= 0 THEN [value |-> max_value, overflow |-> -2 * value - 1]
    ELSE IF value >= max_value
    THEN [value |-> max_value, overflow |-> 2 * (value - max_value)]
    ELSE [value |-> value, overflow |-> 0]
scalar_clamp(value, max_value) ==
    IF value < 0 THEN [value |-> max_value, overflow |-> -2 * value - 1]
    ELSE IF value >= max_value
    THEN [value |-> max_value, overflow |-> 2 * (value - max_value)]
    ELSE [value |-> value, overflow |-> 0]

StepAbort(why, msg) ==
    [status |-> why, message |-> msg, value |-> 0, overflow |-> 0,
     cf |-> 0, max_value |-> 0]

\* reversed(range(n)): the positions in the order the encoder loop visits them
encoder_order_forward(n) == [k \in 1..n |-> k - 1]
encoder_order(n) == [k \in 1..n |-> n - k]

\* the loop variable after `done` iterations; -1 once the loop is over
encoder_at(n, done) == IF done < n THEN encoder_order(n)[done + 1] ELSE -1

\* one iteration of the loop of ans_index_encoder, at position pos
encoder_step(a, msg, pos) ==
    LET cdf_index == a.indices[pos + 1]
    IN  IF ~row_exists(a, cdf_index) \/ ~index_ok(a, cdf_index)
        THEN StepAbort("abort_index", msg)
        ELSE
        LET cdf_i == PyIndex(a.cdf, cdf_index)
            cdf_length_i == PyIndex(a.cdf_length, cdf_index)
            max_value == cdf_length_i - 2
        IN  IF ~max_value_ok(a, max_value) THEN StepAbort("abort_max_value", msg)
            ELSE
            LET c == scalar_clamp(a.symbols[pos + 1] - PyIndex(a.cdf_offset, cdf_index),
                                  max_value)
            IN  IF ~(c.value >= 0 /\ c.value < cdf_length_i - 1)
                THEN StepAbort("abort_value", msg)
                ELSE IF ~term_ok(cdf_i, cdf_length_i)
                THEN StepAbort("abort_term", msg)
                ELSE
                LET sf == enc_statfun(cdf_i, c.value)
                IN  IF ~IntervalOK(<<sf.start>>, <<sf.freq>>, a.precision)
                    THEN StepAbort("abort_interval", msg)
                    ELSE [status |-> "ok",
                          message |-> vrans_push(msg, <<sf.start>>, <<sf.freq>>,
                                                 a.precision),
                          value |-> c.value, overflow |-> c.overflow,
                          cf |-> 0, max_value |-> max_value]

\* one iteration of the loop of ans_index_decoder, at position pos;
\* value is the popped bin, cf the peeked cumulative frequency
decoder_step(a, msg, pos) ==
    LET cdf_index == a.indices[pos + 1]
    IN  IF ~row_exists(a, cdf_index) \/ ~index_ok(a, cdf_index)
        THEN StepAbort("abort_index", msg)
        ELSE
        LET cdf_i == PyIndex(a.cdf, cdf_index)
            cdf_length_i == PyIndex(a.cdf_length, cdf_index)
            max_value == cdf_length_i - 2
        IN  IF ~max_value_ok(a, max_value) THEN StepAbort("abort_max_value", msg)
            ELSE IF ~term_ok(cdf_i, cdf_length_i) THEN StepAbort("abort_term", msg)
            ELSE
            LET cf == vrans_peek(msg, a.precision)[1]
                symbol == dec_statfun(cdf_i, cdf_length_i, cf)
                seen == [StepAbort("abort_lookup", msg) EXCEPT
                            !.value = symbol, !.cf = cf, !.max_value = max_value]
            IN  IF ~enc_index_ok(cdf_i, symbol) THEN seen
                ELSE
                LET sf == enc_statfun(cdf_i, symbol)
                IN  IF ~pop_consistent(sf.start, sf.freq, cf)
                    THEN [seen EXCEPT !.status = "abort_assert"]
                    ELSE
                    LET r == vrans_pop_fun(msg, <<cf>>, <<sf.start>>, <<sf.freq>>,
                                           a.precision)
                    IN  IF ~r.ok THEN [seen EXCEPT !.status = "abort_underflow"]
                        ELSE [seen EXCEPT !.status = "ok", !.message = r.message]

----------------------------------------------------------------------------
(* Inputs *)

MaxLen == 4
MaxSym == 2
Precisions == {3, 4}
SymVals == -1..MaxSym

Pad(row, width) == row \o [k \in 1..(width - Len(row)) |-> 0]

\* cumulative frequencies the generated rows are built from
Grid(p) == {0, 3, Pow2(p)}

\* the valid rows of total mass 2^p: row[0] = 0, last valid entry 2^p,
\* non-decreasing; entries past the length are padding
ValidRows(p) ==
    {[cdf |-> Pad(r, MaxLen), length |-> Len(r)] :
        r \in {q \in UNION {[1..L -> Grid(p)] : L \in 2..MaxLen} :
                  /\ q[1] = 0
                  /\ q[Len(q)] = Pow2(p)
                  /\ \A k \in 1..(Len(q) - 1) : q[k] <= q[k + 1]}}

\* rows whose declared length is not in 2..width
BadLengthRows(p) ==
    {[cdf |-> Pad(<<0, Pow2(p)>>, MaxLen), length |-> l] : l \in {1, MaxLen + 1}}

SecondRow(p) == [cdf |-> Pad(<<0, 3, Pow2(p) - 3, Pow2(p)>>, MaxLen), length |-> 4]

Table(row0, p) ==
    [cdf |-> <<row0.cdf, SecondRow(p).cdf>>,
     cdf_length |-> <<row0.length, SecondRow(p).length>>,
     cdf_offset |-> <<0, 1>>,
     precision |-> p]

WideTable ==
    [cdf |-> <<(<<0, 1, 2, 3, 4, 5, 6, 7, 8, 9, 10, 16>>)>>,
     cdf_length |-> <<12>>,
     cdf_offset |-> <<0>>,
     precision |-> 4]

Call(t, shape, symbols, indices) ==
    [shape |-> shape, symbols |-> symbols, indices |-> indices,
     cdf |-> t.cdf, cdf_length |-> t.cdf_length, cdf_offset |-> t.cdf_offset,
     precision |-> t.precision]

IndexPatterns == {<<0, 0, 0>>, <<0, 1, 0>>, <<1, 0, 0>>, <<0, -1, 0>>, <<0, 2, 0>>}

\* three lanes of one element, every table, every symbol triple
SmallInputs ==
    UNION {{Call(Table(r, p), <<3, 1, 1, 1>>, sy, ix) :
               r \in ValidRows(p) \cup BadLengthRows(p),
               sy \in [1..3 -> SymVals], ix \in IndexPatterns} :
           p \in Precisions}

\* one lane, not divisible into tiles, on the wide single-row table
WideSymVals == {-1, 0, 2, 5, 9, 10, 11}

WideInputs ==
    {Call(WideTable, <<1, 1, 1, 3>>, sy, <<0, 0, 0>>) : sy \in [1..3 -> WideSymVals]}

\* tensors of one or two tiles, and of two lanes of two elements; symbols and
\* indices follow linear patterns over the flat position
TiledShapes == {<<1, 1, 4, 4>>, <<1, 1, 4, 8>>, <<2, 1, 1, 2>>}

SymbolPattern(n, a, b, m, c) == [k \in 1..n |-> ((a * (k - 1) + b) % m) + c]

IndexPattern(n, stride) == [k \in 1..n |-> ((k - 1) \div stride) % 2]

TiledInputs ==
    UNION {{Call(Table(r, p), sh, SymbolPattern(Prod(sh), a, b, m, 2 - m),
                 IndexPattern(Prod(sh), st)) :
               r \in ValidRows(p), sh \in TiledShapes, a \in {1, 3}, b \in {0, 1},
               m \in {2, 3}, st \in {1, 64}} :
           p \in Precisions}

WideTiledInputs ==
    {Call(WideTable, sh, SymbolPattern(Prod(sh), a, b, m, 2 - m),
          IndexPattern(Prod(sh), 64)) :
        sh \in TiledShapes, a \in {1, 3}, b \in {0, 1}, m \in {2, 3}}

\* a table whose rows end in 2^OVERFLOW_WIDTH and in 2^precision, precision
\* being 3: the rows agree on their first two bins
TermTable ==
    [cdf |-> <<(<<0, 3, 5, Pow2(OVERFLOW_WIDTH)>>), SecondRow(3).cdf>>,
     cdf_length |-> <<4, SecondRow(3).length>>,
     cdf_offset |-> <<0, 1>>,
     precision |-> 3]

\* three lanes of one element on that table, symbols of the first two bins
TermInputs ==
    {Call(TermTable, <<3, 1, 1, 1>>, [k \in 1..3 |-> b[k] + ix[k]], ix) :
        b \in [1..3 -> {0, 1}], ix \in {<<0, 0, 0>>, <<0, 1, 0>>, <<1, 0, 0>>}}

Inputs ==
    SmallInputs \cup WideInputs \cup TiledInputs \cup WideTiledInputs \cup TermInputs

----------------------------------------------------------------------------
(* Driver: the scalar encode call, the scalar decode call on its output,  *)
(* the vectorized encode call and the vectorized decode call              *)

NPos(a) == Len(a.indices)

Idle == [status |-> "idle", encoded |-> <<>>, coding_shape |-> <<>>, decoded |-> <<>>]

NoWork == [values |-> <<>>, overflow |-> <<>>, lanes |-> <<>>, cdf_index |-> <<>>,
           popped |-> <<>>]

Init ==
    /\ args \in Inputs
    /\ dec_args = args
    /\ vec_dec_args = args
    /\ pc = "enc_start"
    /\ i = 0
    /\ message = empty_message(1)
    /\ pushed = <<>>
    /\ popped = <<>>
    /\ s_enc = Idle
    /\ s_dec = Idle
    /\ v_work = NoWork
    /\ v_enc = Idle
    /\ v_dec = Idle
    /\ warned = {}

\* ans_index_encoder up to its loop: the empty message, the escape sub-codec
EncStart ==
    /\ pc = "enc_start"
    /\ message' = empty_message(1)
    /\ i' = encoder_at(NPos(args), 0)
    /\ s_enc' = [Idle EXCEPT !.status = "running"]
    /\ warned' = IF base_codec_warns(OVERFLOW_WIDTH)
                 THEN warned \cup {"overflow"} ELSE warned
    /\ pc' = "enc_loop"
    /\ UNCHANGED <<args, dec_args, vec_dec_args, pushed, popped, s_dec, v_work, v_enc, v_dec>>

\* one iteration of the loop of ans_index_encoder
EncStep ==
    /\ pc = "enc_loop"
    /\ i >= 0
    /\ LET r == encoder_step(args, message, i)
       IN  IF r.status = "ok"
           THEN /\ message' = r.message
                /\ pushed' = Append(pushed,
                      [pos |-> i, value |-> r.value, overflow |-> r.overflow,
                       max_value |-> r.max_value, words |-> Len(r.message.tail)])
                /\ i' = encoder_at(NPos(args), Len(pushed) + 1)
                /\ UNCHANGED <<s_enc, pc>>
           ELSE /\ s_enc' = [s_enc EXCEPT !.status = r.status]
                /\ pc' = "vec_enc_start"
                /\ UNCHANGED <<message, pushed, i>>
    /\ warned' = IF /\ CodecBuilt(encoder_step(args, message, i).status)
                    /\ base_codec_warns(args.precision)
                 THEN warned \cup {"symbol"} ELSE warned
    /\ UNCHANGED <<args, dec_args, vec_dec_args, popped, s_dec, v_work, v_enc, v_dec>>

\* ans_index_encoder after its loop: flatten and return
EncFinish ==
    /\ pc = "enc_loop"
    /\ i < 0
    /\ s_enc' = [status |-> "ok", encoded |-> flatten(message),
                 coding_shape |-> Tail(args.shape), decoded |-> <<>>]
    /\ pc' = "dec_start"
    /\ UNCHANGED <<args, dec_args, vec_dec_args, i, message, pushed, popped, s_dec,
                   v_work, v_enc, v_dec, warned>>

\* a valid row of the same length and mass with the bins in reverse order
Mirror(cdf_i, cdf_i_length, precision) ==
    [k \in 1..Len(cdf_i) |->
        IF k <= cdf_i_length
        THEN Pow2(precision) - cdf_i[cdf_i_length + 1 - k]
        ELSE cdf_i[k]]

\* the call with the second position selecting another row of the table
OtherRowCalls(a) ==
    {[a EXCEPT !.indices[2] = x] : x \in (0..(Len(a.cdf) - 1)) \ {a.indices[2]}}

\* the arguments a caller may hand to decode after encode(a): the same, or
\* with another first row, an index out of range, or a wrong row length
DecodeCalls(a) ==
    {a}
      \cup OtherRowCalls(a)
      \cup {[a EXCEPT !.cdf[1] = Mirror(a.cdf[1], a.cdf_length[1], a.precision)]}
      \cup {[a EXCEPT !.indices[2] = x] : x \in {-1, Len(a.cdf)}}
      \cup {[a EXCEPT !.cdf_length[1] = l] : l \in {1, Len(a.cdf[1]) + 1}}

\* the same for the vectorized decoder
VecDecodeCalls(a) ==
    {a, [a EXCEPT !.indices[2] = -1], [a EXCEPT !.cdf_length[1] = 1],
     [a EXCEPT !.cdf[1] = Mirror(a.cdf[1], a.cdf_length[1], a.precision)]}
      \cup OtherRowCalls(a)

\* ans_index_decoder up to its loop: unflatten, the escape sub-codec
DecStart ==
    /\ pc = "dec_start"
    /\ dec_args' \in DecodeCalls(args)
    /\ message' = unflatten_scalar(s_enc.encoded)
    /\ i' = 0
    /\ s_dec' = [Idle EXCEPT !.status = "running"]
    /\ warned' = IF base_codec_warns(OVERFLOW_WIDTH)
                 THEN warned \cup {"overflow"} ELSE warned
    /\ pc' = "dec_loop"
    /\ UNCHANGED <<args, vec_dec_args, pushed, popped, s_enc, v_work, v_enc, v_dec>>

\* one iteration of the loop of ans_index_decoder
DecStep ==
    /\ pc = "dec_loop"
    /\ i < NPos(dec_args)
    /\ LET r == decoder_step(dec_args, message, i)
           looked == r.status \in {"ok", "abort_lookup", "abort_assert",
                                   "abort_underflow"}
           rec == [pos |-> i, cf |-> r.cf, value |-> r.value,
                   max_value |-> r.max_value, ok |-> r.status = "ok",
                   symbol |-> r.value + PyIndex(dec_args.cdf_offset,
                                                dec_args.indices[i + 1])]
       IN  /\ popped' = IF looked THEN Append(popped, rec) ELSE popped
           /\ warned' = IF CodecBuilt(r.status) /\ base_codec_warns(dec_args.precision)
                        THEN warned \cup {"symbol"} ELSE warned
           /\ IF r.status = "ok"
              THEN /\ message' = r.message
                   /\ i' = i + 1
                   /\ UNCHANGED <<s_dec, pc>>
              ELSE /\ s_dec' = [s_dec EXCEPT !.status = r.status]
                   /\ pc' = "vec_enc_start"
                   /\ UNCHANGED <<message, i>>
    /\ UNCHANGED <<args, dec_args, vec_dec_args, pushed, s_enc, v_work, v_enc, v_dec>>

\* ans_index_decoder after its loop: return decoded
DecFinish ==
    /\ pc = "dec_loop"
    /\ i >= NPos(dec_args)
    /\ s_dec' = [s_dec EXCEPT !.status = "ok",
                              !.decoded = [k \in 1..Len(popped) |-> popped[k].symbol]]
    /\ pc' = "vec_enc_start"
    /\ UNCHANGED <<args, dec_args, vec_dec_args, i, message, pushed, popped, s_enc,
                   v_work, v_enc, v_dec, warned>>

----------------------------------------------------------------------------
(* Patch decomposition (compression_utils): a tensor of shape <<1, C, H, W>> *)
(* as one lane per 4 x 4 tile, each lane of shape <<C, 4, 4>>              *)

TilesAcross(shape) == shape[4] \div PATCH_SIZE[2]
TileArea == PATCH_SIZE[1] * PATCH_SIZE[2]

\* flat position in the tensor of slot k of lane p (all counted from 0)
decompose_source(shape, p, k) ==
    LET c == k \div TileArea
        hh == (k % TileArea) \div PATCH_SIZE[2]
        ww == k % PATCH_SIZE[2]
        h == PATCH_SIZE[1] * (p \div TilesAcross(shape)) + hh
        w == PATCH_SIZE[2] * (p % TilesAcross(shape)) + ww
    IN  (c * shape[3] + h) * shape[4] + w

decompose(x, shape) ==
    LET lanes == (shape[3] \div PATCH_SIZE[1]) * TilesAcross(shape)
        size == shape[2] * TileArea
    IN  [p \in 1..lanes |->
            [k \in 1..size |-> x[decompose_source(shape, p - 1, k - 1) + 1]]]

\* the tensor of the given shape reassembled from its lanes
reconstitute(lanes, shape) ==
    [f \in 1..Prod(shape) |->
        LET w == (f - 1) % shape[4]
            h == ((f - 1) \div shape[4]) % shape[3]
            c == (f - 1) \div (shape[3] * shape[4])
            p == (h \div PATCH_SIZE[1]) * TilesAcross(shape) + (w \div PATCH_SIZE[2])
            k == c * TileArea + (h % PATCH_SIZE[1]) * PATCH_SIZE[2] + (w % PATCH_SIZE[2])
        IN  lanes[p + 1][k + 1]]

\* x[b] for each b of the leading axis; np.stack(..., axis=0) is its inverse
batch_lanes(x, shape) ==
    LET size == shape[2] * shape[3] * shape[4]
    IN  [b \in 1..shape[1] |-> [k \in 1..size |-> x[(b - 1) * size + k]]]

stack(lanes) ==
    [f \in 1..(Len(lanes) * Len(lanes[1])) |->
        lanes[((f - 1) \div Len(lanes[1])) + 1][((f - 1) % Len(lanes[1])) + 1]]

----------------------------------------------------------------------------
(* Vectorized orchestrator *)

\* vec_ans_index_encoder: the two successive np.where passes
vec_clamp(value, max_value) ==
    LET of1 == value < 0
        overflow1 == IF of1 THEN -2 * value - 1 ELSE 0
        value1 == IF of1 THEN max_value ELSE value
        of2 == value1 >= max_value
    IN  [value |-> IF of2 THEN max_value ELSE value1,
         overflow |-> IF of2 THEN 2 * (value1 - max_value) ELSE overflow1]

all_index_ok(a) == \A k \in 1..Len(a.indices) : index_ok(a, a.indices[k])

all_max_value_ok(a) ==
    \A k \in 1..Len(a.indices) :
        max_value_ok(a, PyIndex(a.cdf_length, a.indices[k]) - 2)

patch_ok(shape) == shape[3] % PATCH_SIZE[1] = 0 /\ shape[4] % PATCH_SIZE[2] = 0

\* the lanes the loops run over: tiles when B == 1, batch entries otherwise
lanes_of(x, shape) ==
    IF shape[1] = 1 THEN decompose(x, shape) ELSE batch_lanes(x, shape)

\* _vec_indexed_cdf_to_enc_statfun on one lane
vec_enc_statfun(a, cdf_index_i, value_i) ==
    [k \in 1..Len(value_i) |-> enc_statfun(PyIndex(a.cdf, cdf_index_i[k]), value_i[k])]

\* _vec_indexed_cdf_to_dec_statfun on one lane: one search per ragged row
vec_dec_statfun(a, cdf_index_i, cfs) ==
    [k \in 1..Len(cfs) |->
        dec_statfun(PyIndex(a.cdf, cdf_index_i[k]), PyIndex(a.cdf_length, cdf_index_i[k]),
                    cfs[k])]

\* one iteration of the loop of vec_ans_index_encoder
vec_encoder_step(a, msg, value_i, cdf_index_i) ==
    LET sf == vec_enc_statfun(a, cdf_index_i, value_i)
        starts == [k \in 1..Len(sf) |-> sf[k].start]
        freqs == [k \in 1..Len(sf) |-> sf[k].freq]
    IN  IF ~IntervalOK(starts, freqs, a.precision)
        THEN [status |-> "abort_interval", message |-> msg]
        ELSE [status |-> "ok", message |-> vrans_push(msg, starts, freqs, a.precision)]

\* one iteration of the loop of vec_ans_index_decoder
vec_decoder_step(a, msg, cdf_index_i) ==
    LET cfs == vrans_peek(msg, a.precision)
        K == Len(cfs)
        symbol == vec_dec_statfun(a, cdf_index_i, cfs)
        seen == [status |-> "abort_lookup", message |-> msg, cfs |-> cfs,
                 value |-> symbol]
    IN  IF \E k \in 1..K : ~enc_index_ok(PyIndex(a.cdf, cdf_index_i[k]), symbol[k])
        THEN seen
        ELSE
        LET sf == vec_enc_statfun(a, cdf_index_i, symbol)
            starts == [k \in 1..K |-> sf[k].start]
            freqs == [k \in 1..K |-> sf[k].freq]
        IN  IF ~(\A k \in 1..K : pop_consistent(starts[k], freqs[k], cfs[k]))
            THEN [seen EXCEPT !.status = "abort_assert"]
            ELSE
            LET r == vrans_pop_fun(msg, cfs, starts, freqs, a.precision)
            IN  IF ~r.ok THEN [seen EXCEPT !.status = "abort_underflow"]
                ELSE [seen EXCEPT !.status = "ok", !.message = r.message]

\* vec_ans_index_encoder up to its loop
VecEncStart ==
    /\ pc = "vec_enc_start"
    /\ LET n == Len(args.symbols)
           max_value == [k \in 1..n |-> PyIndex(args.cdf_length, args.indices[k]) - 2]
           c == [k \in 1..n |->
                   vec_clamp(args.symbols[k] - PyIndex(args.cdf_offset, args.indices[k]),
                             max_value[k])]
           values == [k \in 1..n |-> c[k].value]
           overflow == [k \in 1..n |-> c[k].overflow]
           status ==
               IF ~all_index_ok(args) THEN "abort_index"
               ELSE IF ~all_max_value_ok(args) THEN "abort_max_value"
               ELSE IF ~(\A k \in 1..n : values[k] >= 0) THEN "abort_value"
               ELSE IF ~(\A k \in 1..n :
                           values[k] < PyIndex(args.cdf_length, args.indices[k]) - 1)
               THEN "abort_value"
               ELSE IF args.shape[1] = 1 /\ ~patch_ok(args.shape) THEN "abort_patch"
               ELSE "running"
       IN  IF status = "running"
           THEN /\ v_work' = [values |-> values, overflow |-> overflow,
                              lanes |-> lanes_of(values, args.shape),
                              cdf_index |-> lanes_of(args.indices, args.shape),
                              popped |-> <<>>]
                /\ message' = empty_message(Len(lanes_of(values, args.shape)[1]))
                /\ i' = Len(lanes_of(values, args.shape)) - 1
                /\ v_enc' = [Idle EXCEPT !.status = "running"]
                /\ pc' = "vec_enc_loop"
           ELSE /\ v_work' =
                     IF status \in {"abort_index", "abort_max_value"} THEN NoWork
                     ELSE [NoWork EXCEPT !.values = values, !.overflow = overflow]
                /\ v_enc' = [Idle EXCEPT !.status = status]
                /\ pc' = "done"
                /\ UNCHANGED <<message, i>>
    /\ UNCHANGED <<args, dec_args, vec_dec_args, pushed, popped, s_enc, s_dec, v_dec, warned>>

\* one iteration of the loop of vec_ans_index_encoder
VecEncStep ==
    /\ pc = "vec_enc_loop"
    /\ i >= 0
    /\ LET r == vec_encoder_step(args, message, v_work.lanes[i + 1],
                                 v_work.cdf_index[i + 1])
       IN  IF r.status = "ok"
           THEN /\ message' = r.message
                /\ i' = i - 1
                /\ UNCHANGED <<v_enc, pc>>
           ELSE /\ v_enc' = [v_enc EXCEPT !.status = r.status]
                /\ pc' = "done"
                /\ UNCHANGED <<message, i>>
    /\ warned' = IF base_codec_warns(args.precision)
                 THEN warned \cup {"vec_symbol"} ELSE warned
    /\ UNCHANGED <<args, dec_args, vec_dec_args, pushed, popped, s_enc, s_dec, v_work, v_dec>>

\* vec_ans_index_encoder after its loop: flatten and return
VecEncFinish ==
    /\ pc = "vec_enc_loop"
    /\ i < 0
    /\ v_enc' = [status |-> "ok", encoded |-> flatten(message),
                 coding_shape |-> <<Len(message.head)>>, decoded |-> <<>>]
    /\ pc' = "vec_dec_start"
    /\ UNCHANGED <<args, dec_args, vec_dec_args, i, message, pushed, popped, s_enc, s_dec,
                   v_work, v_dec, warned>>

\* vec_ans_index_decoder up to its loop
VecDecStart ==
    /\ pc = "vec_dec_start"
    /\ \E d \in VecDecodeCalls(args) :
        LET status == IF ~all_index_ok(d) THEN "abort_index"
                      ELSE IF ~all_max_value_ok(d) THEN "abort_max_value"
                      ELSE "running"
        IN  /\ vec_dec_args' = d
            /\ message' = unflatten(v_enc.encoded, v_enc.coding_shape[1])
            /\ v_dec' = [Idle EXCEPT !.status = status]
            /\ IF status = "running"
               THEN /\ v_work' = [v_work EXCEPT
                                    !.cdf_index = lanes_of(d.indices, d.shape),
                                    !.popped = <<>>]
                    /\ i' = 0
                    /\ pc' = "vec_dec_loop"
               ELSE /\ pc' = "done"
                    /\ UNCHANGED <<v_work, i>>
    /\ UNCHANGED <<args, dec_args, pushed, popped, s_enc, s_dec, v_enc, warned>>

\* one iteration of the loop of vec_ans_index_decoder
VecDecStep ==
    /\ pc = "vec_dec_loop"
    /\ i < Len(v_work.cdf_index)
    /\ LET cdf_index_i == v_work.cdf_index[i + 1]
           r == vec_decoder_step(vec_dec_args, message, cdf_index_i)
           rec == [lane |-> i, cfs |-> r.cfs, value |-> r.value, ok |-> r.status = "ok",
                   symbol |-> [k \in 1..Len(r.value) |->
                                 r.value[k] + PyIndex(vec_dec_args.cdf_offset, cdf_index_i[k])]]
       IN  /\ v_work' = [v_work EXCEPT !.popped = Append(@, rec)]
           /\ IF r.status = "ok"
              THEN /\ message' = r.message
                   /\ i' = i + 1
                   /\ UNCHANGED <<v_dec, pc>>
              ELSE /\ v_dec' = [v_dec EXCEPT !.status = r.status]
                   /\ pc' = "done"
                   /\ UNCHANGED <<message, i>>
    /\ warned' = IF base_codec_warns(vec_dec_args.precision)
                 THEN warned \cup {"vec_symbol"} ELSE warned
    /\ UNCHANGED <<args, dec_args, vec_dec_args, pushed, popped, s_enc, s_dec, v_enc>>

\* vec_ans_index_decoder after its loop: reassemble and return
VecDecFinish ==
    /\ pc = "vec_dec_loop"
    /\ i >= Len(v_work.cdf_index)
    /\ LET symbols == [k \in 1..Len(v_work.popped) |-> v_work.popped[k].symbol]
       IN  v_dec' = [v_dec EXCEPT
                        !.status = "ok",
                        !.decoded = IF vec_dec_args.shape[1] = 1
                                    THEN reconstitute(symbols, vec_dec_args.shape)
                                    ELSE stack(symbols)]
    /\ pc' = "done"
    /\ UNCHANGED <<args, dec_args, vec_dec_args, i, message, pushed, popped, s_enc, s_dec,
                   v_work, v_enc, warned>>

Next ==
    \/ EncStart \/ EncStep \/ EncFinish
    \/ DecStart \/ DecStep \/ DecFinish
    \/ VecEncStart \/ VecEncStep \/ VecEncFinish
    \/ VecDecStart \/ VecDecStep \/ VecDecFinish

Spec == Init /\ [][Next]_vars

----------------------------------------------------------------------------
(* Codec construction on its own: base_codec at its three call sites of the *)
(* encoders, for every precision up to MaxPrecision                        *)

MaxPrecision == 28

CodecRows(p) == {<<0, Pow2(p)>>, <<0, Pow2(p - 1), Pow2(p)>>, <<0, Pow2(OVERFLOW_WIDTH)>>}

CodecInputs ==
    UNION {{Call([cdf |-> <<r>>, cdf_length |-> <<Len(r)>>, cdf_offset |-> <<0>>,
                  precision |-> p], <<1, 1, 1, 1>>, <<0>>, <<0>>) :
               r \in CodecRows(p)} :
           p \in 1..MaxPrecision}

InitCodec ==
    /\ args \in CodecInputs
    /\ dec_args = args
    /\ vec_dec_args = args
    /\ pc = "codec_overflow"
    /\ i = 0
    /\ message = empty_message(1)
    /\ pushed = <<>>
    /\ popped = <<>>
    /\ s_enc = Idle
    /\ s_dec = Idle
    /\ v_work = NoWork
    /\ v_enc = Idle
    /\ v_dec = Idle
    /\ warned = {}

\* ans_index_encoder: the escape sub-codec, base_codec(..., overflow_width)
CodecOverflow ==
    /\ pc = "codec_overflow"
    /\ warned' = IF base_codec_warns(OVERFLOW_WIDTH)
                 THEN warned \cup {"overflow"} ELSE warned
    /\ pc' = "codec_symbol"
    /\ UNCHANGED <<args, dec_args, vec_dec_args, i, message, pushed, popped, s_enc,
                   s_dec, v_work, v_enc, v_dec>>

\* ans_index_encoder: the row's codec, behind the assertion of the lookup
CodecSymbol ==
    /\ pc = "codec_symbol"
    /\ IF term_ok(args.cdf[1], args.cdf_length[1])
       THEN /\ warned' = IF base_codec_warns(args.precision)
                         THEN warned \cup {"symbol"} ELSE warned
            /\ s_enc' = [s_enc EXCEPT !.status = "running"]
       ELSE /\ s_enc' = [s_enc EXCEPT !.status = "abort_term"]
            /\ UNCHANGED warned
    /\ pc' = "codec_vec_symbol"
    /\ UNCHANGED <<args, dec_args, vec_dec_args, i, message, pushed, popped, s_dec,
                   v_work, v_enc, v_dec>>

\* vec_ans_index_encoder: the lane's codec
CodecVecSymbol ==
    /\ pc = "codec_vec_symbol"
    /\ warned' = IF base_codec_warns(args.precision)
                 THEN warned \cup {"vec_symbol"} ELSE warned
    /\ v_enc' = [v_enc EXCEPT !.status = "running"]
    /\ pc' = "codec_done"
    /\ UNCHANGED <<args, dec_args, vec_dec_args, i, message, pushed, popped, s_enc,
                   s_dec, v_work, v_dec>>

NextCodec == CodecOverflow \/ CodecSymbol \/ CodecVecSymbol

SpecCodec == InitCodec /\ [][NextCodec]_vars

----------------------------------------------------------------------------
(* Vocabulary of the properties *)

Row(a, k) == PyIndex(a.cdf, a.indices[k])
RowLength(a, k) == PyIndex(a.cdf_length, a.indices[k])
Offset(a, k) == PyIndex(a.cdf_offset, a.indices[k])

\* the shifted value of position k (counted from 1) and its row's max_value
Shifted(a, k) == a.symbols[k] - Offset(a, k)
MaxValue(a, k) == RowLength(a, k) - 2

\* row[0] = 0, row[length - 1] = 2^precision, non-decreasing, 1 < length <= width
ValidRow(row, length, precision) ==
    /\ length > 1 /\ length <= Len(row)
    /\ row[1] = 0
    /\ row[length] = Pow2(precision)
    /\ \A k \in 1..(length - 1) : row[k] <= row[k + 1]

ValidCall(a) ==
    /\ \A k \in 1..NPos(a) : a.indices[k] >= 0 /\ a.indices[k] < Len(a.cdf)
    /\ \A r \in 1..Len(a.cdf) : ValidRow(a.cdf[r], a.cdf_length[r], a.precision)

\* every shifted value lies in its row's modelled range [0, cdf_length - 2)
InRange(a) ==
    \A k \in 1..NPos(a) : Shifted(a, k) >= 0 /\ Shifted(a, k) < MaxValue(a, k)

\* some position fails the index check or the max_value check
BadPosition(a, k) ==
    \/ ~(a.indices[k] >= 0 /\ a.indices[k] < Len(a.cdf))
    \/ ~(MaxValue(a, k) >= 0 /\ MaxValue(a, k) < Len(a.cdf[1]) - 1)

BadCall(a) == \E k \in 1..NPos(a) : BadPosition(a, k)

ScalarOver == pc \notin {"enc_start", "enc_loop", "dec_start", "dec_loop"}

\* the bin the scalar encoder pushed for position pos (counted from 0)
PushedAt(pos) ==
    LET k == CHOOSE j \in 1..Len(pushed) : pushed[j].pos = pos IN pushed[k].value

----------------------------------------------------------------------------
(* Properties *)

\* C1 (as claimed): for every valid table and every in-range symbol
\* sequence, the scalar decoder applied to the scalar encoder's output with
\* the same arguments returns exactly the symbols.
C1_ScalarRoundTrip ==
    (ScalarOver /\ ValidCall(args) /\ InRange(args) /\ dec_args = args)
        => /\ s_enc.status = "ok"
           /\ s_dec.status = "ok"
           /\ s_dec.decoded = args.symbols

\* C2 (as claimed): a decode with the arguments of the encode reproduces the
\* symbol of every position, the positions outside the modelled range included.
C2_OutOfRangeRecovery ==
    (s_dec.status = "ok" /\ dec_args = args)
        => \A k \in 1..NPos(args) : s_dec.decoded[k] = args.symbols[k]

\* C3: the encoder starts from the empty message and pushes once per
\* position in the order n-1, ..., 0; the decoder pops once per position in
\* the order 0, ..., n-1; the k-th pop of a decode with the encode's arguments
\* returns what was pushed for position k.
C3_LifoOrder ==
    LET n == NPos(args)
    IN  /\ \A k \in 1..Len(pushed) : pushed[k].pos = n - k
        /\ (pc = "enc_loop" /\ pushed = <<>>) => message = empty_message(1)
        /\ s_enc.status = "ok" => Len(pushed) = n
        /\ \A k \in 1..Len(popped) : popped[k].pos = k - 1
        /\ s_dec.status = "ok" =>
               /\ Len(popped) = n
               /\ \A k \in 1..n : popped[k].ok
               /\ dec_args = args =>
                      \A k \in 1..n : popped[k].value = pushed[n + 1 - k].value

\* C3 witness: three distinct in-range symbols come back in their order.
C3_Witness ==
    /\ s_dec.status = "ok" /\ dec_args = args
    /\ args.symbols = <<5, 2, 9>>
    /\ s_dec.decoded = <<5, 2, 9>>
    /\ Len(s_enc.encoded) > 2

\* C4 (as claimed): a decode whose row at a position differs from the row
\* that encoded it is aborted at that position, and no completed pop returns
\* a bin other than the one pushed for its position.
C4_AbortsOnOtherRow ==
    \A k \in 1..Len(popped) :
        /\ popped[k].ok => popped[k].value = PushedAt(popped[k].pos)
        /\ Row(dec_args, popped[k].pos + 1) # Row(args, popped[k].pos + 1)
              => ~popped[k].ok

\* C4 (amended): the assertion of pop compares the looked-up symbol with the
\* row given to decode only; on a valid row it never fails, every completed
\* pop returns the bin whose interval in that row holds cum_freq, and a
\* decode with the encode's arguments returns the pushed bins.
C4_SelfConsistency ==
    /\ s_dec.status # "abort_assert"
    /\ v_dec.status # "abort_assert"
    /\ \A k \in 1..Len(popped) :
          LET row == Row(dec_args, popped[k].pos + 1)
              v == popped[k].value
          IN  /\ popped[k].ok => row[v + 1] <= popped[k].cf /\ popped[k].cf < row[v + 2]
              /\ (popped[k].ok /\ dec_args = args) => v = PushedAt(popped[k].pos)

\* C4 witness: a decode with another valid first row runs to completion and
\* returns a bin that was not the one pushed.
C4_Witness ==
    /\ s_dec.status = "ok"
    /\ dec_args.cdf # args.cdf
    /\ \E k \in 1..Len(popped) : popped[k].value # PushedAt(popped[k].pos)

\* C5: the bin pushed for a position is max_value exactly when the shifted
\* value v is < 0 or >= max_value, and is v itself when 0 <= v < max_value.
C5_BoundaryClamping ==
    \A k \in 1..Len(pushed) :
        LET v == Shifted(args, pushed[k].pos + 1)
            max_value == MaxValue(args, pushed[k].pos + 1)
        IN  /\ pushed[k].value = max_value <=> (v < 0 \/ v >= max_value)
            /\ (0 <= v /\ v < max_value) => pushed[k].value = v

\* C5 witness: max_value = 10, offset 0; -1 and 11 went to the escape bin,
\* 9 passed through.
C5_Witness ==
    /\ s_enc.status = "ok"
    /\ args.cdf_length = <<12>> /\ args.cdf_offset = <<0>>
    /\ args.symbols = <<-1, 9, 11>>
    /\ [k \in 1..Len(pushed) |-> pushed[k].value] = <<10, 9, 10>>

\* C6 (as claimed): on a one-lane input whose spatial dimensions are divisible
\* by the tile size and whose shifted values are in range, whichever of the
\* two encode/decode pairs returns, the other returns the same symbols.
C6_VecScalarEquivalence ==
    (/\ pc = "done"
     /\ args.shape[1] = 1 /\ patch_ok(args.shape)
     /\ ValidCall(args) /\ InRange(args)
     /\ dec_args = args /\ vec_dec_args = args
     /\ (s_dec.status = "ok" \/ v_dec.status = "ok"))
        => /\ s_dec.status = "ok"
           /\ v_dec.status = "ok"
           /\ v_dec.decoded = s_dec.decoded

\* C7: a call with a position whose index is outside [0, row count) or whose
\* row has max_value outside [0, width - 1) never returns, neither from the
\* scalar nor from the vectorized encoder or decoder, and nothing is pushed
\* or popped for such a position.
C7_FatalParameterChecks ==
    /\ BadCall(args) =>
          /\ s_enc.status # "ok" /\ s_enc.encoded = <<>>
          /\ ScalarOver => Aborted(s_enc.status)
          /\ v_enc.status # "ok" /\ v_enc.encoded = <<>>
          /\ pc # "vec_enc_loop"
          /\ pc = "done" => v_enc.status \in {"abort_index", "abort_max_value"}
    /\ \A k \in 1..Len(pushed) : ~BadPosition(args, pushed[k].pos + 1)
    /\ (s_dec.status # "idle" /\ BadCall(dec_args)) =>
          /\ s_dec.status # "ok" /\ s_dec.decoded = <<>>
          /\ ScalarOver => Aborted(s_dec.status)
    /\ \A k \in 1..Len(popped) : ~BadPosition(dec_args, popped[k].pos + 1)
    /\ (v_dec.status # "idle" /\ BadCall(vec_dec_args)) =>
          /\ v_dec.status \in {"abort_index", "abort_max_value"}
          /\ v_dec.decoded = <<>>
          /\ v_work.popped = <<>>

\* C7 witness: the scalar encoder stopped at a bad index after pushing the
\* positions behind it, and the vectorized encoder refused the same call.
C7_Witness ==
    /\ s_enc.status = "abort_index" /\ Len(pushed) > 0
    /\ v_enc.status = "abort_index"

\* C8: constructing a codec warns exactly when the precision is at least 24,
\* and goes on afterwards; the escape sub-codec never warns.
C8_PrecisionThreshold ==
    /\ "overflow" \notin warned
    /\ s_enc.status = "running" => ("symbol" \in warned <=> args.precision >= 24)
    /\ s_enc.status # "running" => "symbol" \notin warned
    /\ v_enc.status = "running" => ("vec_symbol" \in warned <=> args.precision >= 24)
    /\ v_enc.status # "running" => "vec_symbol" \notin warned
    /\ pc = "codec_done" => v_enc.status = "running"

\* C8 witness: a table of total mass 2^24 has raised the warning.
C8_Witness ==
    /\ pc = "codec_done"
    /\ args.precision = 24
    /\ args.cdf[1][args.cdf_length[1]] = 16777216
    /\ "vec_symbol" \in warned

\* the rightmost index among the first `length` entries with row[i] <= cf
Rightmost(row, length, cf) ==
    CHOOSE x \in 0..(length - 1) :
        /\ row[x + 1] <= cf
        /\ \A j \in 0..(length - 1) : row[j + 1] <= cf => j <= x

\* the row with everything past its length overwritten
Repadded(row, length, pad) ==
    [k \in 1..Len(row) |-> IF k <= length THEN row[k] ELSE pad]

LookupAgrees(a, r, cf) ==
    LET row == a.cdf[r]
        length == a.cdf_length[r]
        sym == dec_statfun(row, length, cf)
        lane == vec_dec_statfun(a, <<r - 1, Len(a.cdf) - r>>, <<cf, cf>>)
    IN  /\ sym = Rightmost(row, length, cf)
        /\ 0 <= sym /\ sym <= length - 2
        /\ row[sym + 1] <= cf /\ cf < row[sym + 2]
        /\ lane[1] = sym
        /\ \A pad \in {0, cf, Pow2(a.precision)} :
              dec_statfun(Repadded(row, length, pad), length, cf) = sym

C10_SameEscapeMapping ==
    \A k \in 1..Len(v_work.values) :
        LET v == Shifted(args, k)
            max_value == MaxValue(args, k)
        IN  /\ v_work.values[k] = scalar_clamp(v, max_value).value
            /\ v_work.overflow[k] = scalar_clamp(v, max_value).overflow
            /\ v_work.overflow[k] =
                  IF v < 0 THEN -2 * v - 1
                  ELSE IF v >= max_value THEN 2 * (v - max_value) ELSE 0

\* the last valid entry of the row position k (counted from 1) selects
LastValid(a, k) == Row(a, k)[Min(RowLength(a, k), Len(Row(a, k)))]

\* that entry is 2^16 or 2^4
EndsInOverflow(a, k) == LastValid(a, k) \in {65536, 16}

\* the scalar call's loop stopped at position i and the vectorized call has
\* not begun
ScalarStopped == pc = "vec_enc_start" /\ i >= 0

\* C11: the scalar encoder and decoder stop at a position, before its push or
\* pop, unless the last valid entry of the row it selects is 2^16 or 2^4,
\* whatever the precision: every position pushed or popped selects such a
\* row, a scalar call that returns selected only such rows, and a call
\* stopped by this check stands at a position whose row ends otherwise and
\* has neither been pushed nor popped.  The vectorized calls never stop on it.
C11_TerminalGuard ==
    /\ \A j \in 1..Len(pushed) : EndsInOverflow(args, pushed[j].pos + 1)
    /\ \A j \in 1..Len(popped) : EndsInOverflow(dec_args, popped[j].pos + 1)
    /\ s_enc.status = "ok" => \A k \in 1..NPos(args) : EndsInOverflow(args, k)
    /\ s_dec.status = "ok" => \A k \in 1..NPos(dec_args) : EndsInOverflow(dec_args, k)
    /\ (ScalarStopped /\ s_enc.status = "abort_term")
          => /\ ~EndsInOverflow(args, i + 1)
             /\ \A j \in 1..Len(pushed) : pushed[j].pos > i
             /\ Len(pushed) = NPos(args) - 1 - i
    /\ (ScalarStopped /\ s_dec.status = "abort_term")
          => /\ ~EndsInOverflow(dec_args, i + 1)
             /\ \A j \in 1..Len(popped) : popped[j].pos < i
             /\ Len(popped) = i
    /\ (ScalarOver /\ ~BadCall(args) /\ \E k \in 1..NPos(args) : ~EndsInOverflow(args, k))
          => s_enc.status = "abort_term"
    /\ (ScalarOver /\ s_enc.status = "ok" /\ ~BadCall(dec_args)
           /\ \E k \in 1..NPos(dec_args) : ~EndsInOverflow(dec_args, k))
          => s_dec.status \in {"abort_term", "abort_lookup", "abort_assert",
                               "abort_underflow"}
    /\ v_enc.status # "abort_term" /\ v_dec.status # "abort_term"

\* C11 witness: with precision 3 the scalar encoder returned on rows ending in
\* 2^4; the scalar decoder, handed a second position that selects the row
\* ending in 2^3, popped the first position and stopped at the second on the
\* check; the vectorized decoder returned on that very call.
C11_Witness ==
    /\ pc = "done"
    /\ args.precision = 3
    /\ s_enc.status = "ok" /\ Len(pushed) = NPos(args)
    /\ s_dec.status = "abort_term" /\ Len(popped) = 1
    /\ ~EndsInOverflow(dec_args, 2) /\ LastValid(dec_args, 2) = Pow2(dec_args.precision)
    /\ vec_dec_args = dec_args
    /\ v_enc.status = "ok" /\ v_dec.status = "ok"

====
